---- MODULE Spec2Model ----
(***************************************************************************)
(* Model of dcase2020_task2/data_sets/mcm_dataset.py: MachineDataSet (the  *)
(* feature cache loader and windowed dataset) and MCMDataSet (the pair of  *)
(* training/validation sets with the mean/std of the training features).   *)
(*                                                                         *)
(* A feature matrix (num_mel x T numpy array) is a sequence of T columns,  *)
(* each column a sequence of num_mel integers; concatenation along the     *)
(* last axis is \o, and a[:, i:j] is a clamped SubSeq.                     *)
(***************************************************************************)
EXTENDS Integers, Sequences, FiniteSets, TLC

VARIABLES
    fs,      \* the audio files under data_root (a set of recordings)
    cache,   \* the .npy files under data_root: file name -> saved array
    ds,      \* the MachineDataSet object held by the caller, or NoObject
    mcm,     \* the MCMDataSet object held by the caller, or NoObject
    ret,     \* what the last call returned or raised
    hist,    \* log of every MachineDataSet.__init__ run so far, in order
    calls,   \* number of constructor calls made by the caller
    edits    \* number of changes made to the audio tree (SpecFs only)

vars == <<fs, cache, ds, mcm, ret, hist, calls, edits>>

----------------------------------------------------------------------------
(* Bounds of the model *)

\* constructor calls (MachineDataSet or MCMDataSet) in one run
MaxCalls == 2
\* recordings added to or removed from the audio tree during a run (SpecFs)
MaxEdits == 1

NoObject == [none |-> TRUE]

----------------------------------------------------------------------------
(* dcase2020_task2.data_sets: the class and id maps the file imports *)

INVERSE_CLASS_MAP == (0 :> "fan") @@ (1 :> "pump")

CLASS_MAP == ("fan" :> 0) @@ ("pump" :> 1)

TRAINING_ID_MAP == (0 :> {0}) @@ (1 :> {0})

EVALUATION_ID_MAP == (0 :> {1}) @@ (1 :> {})

ALL_ID_MAP == (0 :> <<0, 1>>) @@ (1 :> <<0>>)

----------------------------------------------------------------------------
(* File names.  A file name is the sequence of its '_'-separated fields,   *)
(* which is what str.split('_') returns.                                   *)

\* rank of a field in the character order sorted() uses
FieldRank == ("00" :> 1) @@ ("01" :> 2) @@ ("02" :> 3) @@ ("0.wav" :> 4)
          @@ ("1.wav" :> 5) @@ ("2.wav" :> 6) @@ ("3.wav" :> 7)
          @@ ("anomaly" :> 8) @@ ("id" :> 9) @@ ("normal" :> 10)
          @@ ("other" :> 11) @@ ("x" :> 12)

RECURSIVE NameLess(_, _)
NameLess(a, b) ==
    IF a = << >> THEN b # << >>
    ELSE IF b = << >> THEN FALSE
    ELSE IF Head(a) # Head(b) THEN FieldRank[Head(a)] < FieldRank[Head(b)]
    ELSE NameLess(Tail(a), Tail(b))

\* '{:02d}'.format(machine_id)
FormatId(machine_id) ==
    IF machine_id >= 0 /\ machine_id < 10 THEN "0" \o ToString(machine_id)
    ELSE ToString(machine_id)

\* int(field) of an id field
ParseInt(field) ==
    IF \E n \in 0..99 : FormatId(n) = field
    THEN CHOOSE n \in 0..99 : FormatId(n) = field
    ELSE -1

\* fnmatch of '*id_NN_*.wav' against a file name (every model file ends in .wav)
GlobMatch(name, machine_id) ==
    \E i \in 1..(Len(name) - 2) :
        name[i] = "id" /\ name[i + 1] = FormatId(machine_id)

Rec(root, type, split, name, samples, seed) ==
    [dir |-> <<root, type, split>>, name |-> name, samples |-> samples, seed |-> seed]

\* the regular recordings: what the DCASE tree looks like
Regular ==
    { Rec("dev_data", "fan", "train", <<"normal", "id", "00", "1.wav">>, 6, 1),
      Rec("dev_data", "fan", "train", <<"normal", "id", "00", "2.wav">>, 4, 2),
      Rec("dev_data", "fan", "train", <<"normal", "id", "02", "1.wav">>, 6, 3),
      Rec("dev_data", "fan", "test", <<"anomaly", "id", "00", "1.wav">>, 6, 4),
      Rec("dev_data", "fan", "test", <<"normal", "id", "00", "1.wav">>, 5, 5),
      Rec("eval_data", "fan", "train", <<"normal", "id", "01", "1.wav">>, 6, 6),
      Rec("eval_data", "fan", "test", <<"id", "01", "1.wav">>, 6, 7),
      Rec("eval_data", "fan", "test", <<"id", "01", "2.wav">>, 7, 8) }

\* atypical recordings: longer, much shorter (last and first in sorted
\* order), a four-field name with another prefix, a five-field name
Atypical ==
    { Rec("dev_data", "fan", "train", <<"normal", "id", "00", "3.wav">>, 9, 9),
      Rec("dev_data", "fan", "train", <<"normal", "id", "00", "3.wav">>, 1, 10),
      Rec("dev_data", "fan", "train", <<"normal", "id", "00", "0.wav">>, 1, 11),
      Rec("dev_data", "fan", "test", <<"other", "id", "00", "1.wav">>, 6, 12),
      Rec("dev_data", "fan", "train", <<"normal", "id", "00", "x", "1.wav">>, 6, 13) }

\* a directory holds one file per name
OneFilePerName(tree) ==
    \A r1, r2 \in tree : (r1.dir = r2.dir /\ r1.name = r2.name) => r1 = r2

\* the audio trees a run starts on: the regular recordings, alone or with
\* one atypical recording beside them
FileTrees == {Regular} \cup { Regular \cup {r} : r \in Atypical }

\* glob.glob(os.path.join(data_root, root_folder, machine_type, split, pattern))
Glob(tree, root_folder, machine_type, split, machine_id) ==
    { r \in tree : r.dir = <<root_folder, machine_type, split>>
                   /\ GlobMatch(r.name, machine_id) }

\* sorted(files): all files of one glob are in one directory
RECURSIVE Sorted(_)
Sorted(files) ==
    IF files = {} THEN << >>
    ELSE LET first == CHOOSE r \in files :
                          \A q \in files \ {r} : NameLess(r.name, q.name)
         IN  <<first>> \o Sorted(files \ {first})

----------------------------------------------------------------------------
(* numpy helpers *)

Min(a, b) == IF a < b THEN a ELSE b

\* seq[a:b] for 0 <= a, 0 <= b: Python clamps a slice to the sequence
Slice(seq, a, b) == SubSeq(seq, a + 1, Min(b, Len(seq)))

\* a column np.empty() left unwritten
Unwritten == << >>

\* np.empty((num_mel, n)): n columns nothing has been written to
NpEmpty(n) == [c \in 1..n |-> Unwritten]

RECURSIVE Flatten(_)
\* np.concatenate(list, axis=-1)
Flatten(list) ==
    IF list = << >> THEN << >> ELSE Head(list) \o Flatten(Tail(list))

----------------------------------------------------------------------------
(* MachineDataSet.__init__: the attributes set before any file is read *)

\* mutant: the validation override is forgotten
EffectiveHopAll_AsPassed(mode, hop_all) == hop_all

\* the validation mode never hops by a whole context
EffectiveHopAll(mode, hop_all) ==
    IF mode = "validation" THEN FALSE ELSE hop_all

SelfOf(p) ==
    [ num_mel      |-> p.num_mel,
      n_fft        |-> p.n_fft,
      hop_size     |-> p.hop_size,
      power        |-> p.power,
      normalize    |-> p.normalize,
      mode         |-> p.mode,
      context      |-> p.context,
      machine_type |-> INVERSE_CLASS_MAP[p.machine_type],
      machine_id   |-> p.machine_id,
      fmin         |-> p.fmin,
      hop_all      |-> EffectiveHopAll(p.mode, p.hop_all) ]

\* "dev_data", "eval_data", or no folder at all (AttributeError)
RootFolder(machine_type, machine_id) ==
    IF machine_id \in TRAINING_ID_MAP[machine_type] THEN "dev_data"
    ELSE IF machine_id \in EVALUATION_ID_MAP[machine_type] THEN "eval_data"
    ELSE "AttributeError"

SplitOf(mode) == IF mode = "training" THEN "train" ELSE "test"

----------------------------------------------------------------------------
(* MachineDataSet.__load_preprocess_file__ *)

\* librosa.load + optional normalisation + librosa.feature.melspectrogram:
\* an uninterpreted function of the recording and of n_fft, hop_length,
\* n_mels, power, fmin and the normalize flag; one frame per hop plus one
MelSpectrogram(self, rec) ==
    [ t \in 1..(1 + rec.samples \div self.hop_size) |->
        [ b \in 1..self.num_mel |->
            ( ((rec.seed + (t - 1) * self.hop_size) % 5) + b + self.fmin
              + (self.n_fft \div 4)
              + (IF self.normalize THEN 0 ELSE rec.samples) ) ^ self.power ] ]

\* librosa.core.amplitude_to_db
AmplitudeToDb(x) == [t \in DOMAIN x |-> [b \in DOMAIN x[t] |-> 20 * x[t][b]]]

\* librosa.core.power_to_db
PowerToDb(x) == [t \in DOMAIN x |-> [b \in DOMAIN x[t] |-> 10 * x[t][b]]]

\* mutant: any power other than 1 is treated as 2 instead of raising
ToDb_AnyPower(power, x) ==
    IF power = 1 THEN [err |-> "none", x |-> AmplitudeToDb(x)]
    ELSE [err |-> "none", x |-> PowerToDb(x)]

\* the log scaling picked by the power exponent, or AttributeError
ToDb(power, x) ==
    IF power = 1 THEN [err |-> "none", x |-> AmplitudeToDb(x)]
    ELSE IF power = 2 THEN [err |-> "none", x |-> PowerToDb(x)]
    ELSE [err |-> "AttributeError", x |-> << >>]

LoadPreprocessFile(self, rec) == ToDb(self.power, MelSpectrogram(self, rec))

----------------------------------------------------------------------------
(* MachineDataSet.__get_meta_data__ and __load_meta_data__ *)

\* mutant: a four-field name with another first field is labelled -1
\* instead of raising
Targets_UnknownPrefix(meta_data) ==
    IF Len(meta_data) = 4
    THEN IF meta_data[1] = "normal" THEN [err |-> "none", y |-> 0]
         ELSE IF meta_data[1] = "anomaly" THEN [err |-> "none", y |-> 1]
         ELSE [err |-> "none", y |-> -1]
    ELSE IF Len(meta_data) = 3 THEN [err |-> "none", y |-> -1]
    ELSE [err |-> "AttributeError", y |-> -1]

\* the label, from the field count and the first field
Targets(meta_data) ==
    IF Len(meta_data) = 4
    THEN IF meta_data[1] = "normal" THEN [err |-> "none", y |-> 0]
         ELSE IF meta_data[1] = "anomaly" THEN [err |-> "none", y |-> 1]
         ELSE [err |-> "AttributeError", y |-> -1]
    ELSE IF Len(meta_data) = 3 THEN [err |-> "none", y |-> -1]
    ELSE [err |-> "AttributeError", y |-> -1]

\* the field the code compares, as an int, with self.machine_id
IdField(meta_data) == IF Len(meta_data) = 4 THEN meta_data[3] ELSE meta_data[2]

GetMetaData(self, rec) ==
    LET meta_data    == rec.name
        machine_type == CLASS_MAP[rec.dir[2]]
        t            == Targets(meta_data)
        none         == [targets |-> -1, machine_types |-> -1,
                         machine_ids |-> -1, file_ids |-> << >>]
    IN  IF self.machine_type # INVERSE_CLASS_MAP[machine_type]
        THEN [err |-> "AssertionError", md |-> none]
        ELSE IF t.err # "none" THEN [err |-> t.err, md |-> none]
        ELSE IF self.machine_id # ParseInt(IdField(meta_data))
        THEN [err |-> "AssertionError", md |-> none]
        ELSE [err |-> "none",
              md  |-> [ targets       |-> t.y,
                        machine_types |-> machine_type,
                        machine_ids   |-> self.machine_id,
                        file_ids      |-> rec.dir \o <<rec.name>> ]]

\* the loop of __load_meta_data__ over got, the outcome of __get_meta_data__
\* for each file: data is the list built so far, seen the outcome of every
\* call made (the loop ends at the first one that raises)
RECURSIVE CollectMetaData(_, _, _, _, _)
CollectMetaData(files, got, i, data, seen) ==
    IF i > Len(files) THEN [err |-> "none", data |-> data, seen |-> seen]
    ELSE LET here == [name |-> files[i].name, err |-> got[i].err,
                      targets |-> got[i].md.targets]
         IN  IF got[i].err # "none"
             THEN [err |-> got[i].err, data |-> << >>, seen |-> Append(seen, here)]
             ELSE CollectMetaData(files, got, i + 1, Append(data, got[i].md),
                                  Append(seen, here))

LoadMetaData(self, files) ==
    CollectMetaData(files, [i \in 1..Len(files) |-> GetMetaData(self, files[i])],
                    1, << >>, << >>)

----------------------------------------------------------------------------
(* MachineDataSet.__load_data__ *)

\* '{}'.format of a bool
FormatBool(b) == IF b THEN "True" ELSE "False"

\* mutant: fmin is left out of the cache file's name
CacheFileName_NoFmin(self) ==
    << ToString(self.num_mel), ToString(self.n_fft), ToString(self.hop_size),
       ToString(self.power), self.mode, self.machine_type,
       ToString(self.machine_id), FormatBool(self.normalize) >>

\* the cache file's name, as its '_'-separated fields (".npy" left out)
CacheFileName(self) ==
    << ToString(self.num_mel), ToString(self.n_fft), ToString(self.hop_size),
       ToString(self.power), self.mode, self.machine_type,
       ToString(self.machine_id), FormatBool(self.normalize),
       ToString(self.fmin) >>

\* mutant: the cache file is never found
PathExists_Never(disk, file_path) == FALSE

\* os.path.exists(file_path)
PathExists(disk, file_path) == file_path \in DOMAIN disk

\* np.load(file_path)
NpLoad(disk, file_path) == disk[file_path]

\* np.save(file_path, data): creates or replaces the file
NpSave(disk, file_path, data) ==
    [k \in DOMAIN disk \cup {file_path} |->
        IF k = file_path THEN data ELSE disk[k]]

\* the pad/truncate step applied to one file's spectrogram
PadTruncate(file, file_length) ==
    IF Len(file) # file_length
    THEN IF Len(file) < file_length
         THEN file \o Slice(file, 0, file_length - Len(file))
         ELSE Slice(file, 0, file_length)
    ELSE file

\* data[:, i * L:(i + 1) * L] = file: numpy accepts a value of the slot's
\* width, broadcasts a single column, and raises ValueError otherwise
AssignSlot(data, i, file_length, file) ==
    LET lo == i * file_length
        write(v) == [c \in DOMAIN data |->
                        IF c > lo /\ c <= lo + file_length
                        THEN v[c - lo] ELSE data[c]]
    IN  IF Len(file) = file_length
        THEN [err |-> "none", data |-> write(file)]
        ELSE IF Len(file) = 1
        THEN [err |-> "none",
              data |-> write([c \in 1..file_length |-> file[1]])]
        ELSE [err |-> "ValueError", data |-> data]

\* the loop over enumerate(files), from index i (0-based) on, where
\* loaded[i + 1] is what __load_preprocess_file__ gives for files[i];
\* fitted logs the frame count of every file after the pad/truncate step
RECURSIVE FillSlots(_, _, _, _, _)
FillSlots(file_length, loaded, i, data, fitted) ==
    IF i >= Len(loaded)
    THEN [err |-> "none", data |-> data, fitted |-> fitted]
    ELSE IF loaded[i + 1].err # "none"
    THEN [err |-> loaded[i + 1].err, data |-> data, fitted |-> fitted]
    ELSE LET file == PadTruncate(loaded[i + 1].x, file_length)
             put  == AssignSlot(data, i, file_length, file)
         IN  IF put.err # "none"
             THEN [err |-> put.err, data |-> data,
                   fitted |-> Append(fitted, Len(file))]
             ELSE FillSlots(file_length, loaded, i + 1, put.data,
                            Append(fitted, Len(file)))

\* mutant: np.save sits inside the loop, so that the matrix is on disk,
\* partly filled, when a later file raises
SaveFilled_InLoop(disk, file_path, loop) ==
    IF loop.err # "none"
    THEN [err |-> loop.err, data |-> << >>,
          disk |-> IF Len(loop.fitted) > 1
                   THEN NpSave(disk, file_path, loop.data) ELSE disk,
          source |-> "computed", fitted |-> loop.fitted,
          wrote |-> Len(loop.fitted) > 1]
    ELSE [err |-> "none", data |-> loop.data,
          disk |-> NpSave(disk, file_path, loop.data),
          source |-> "computed", fitted |-> loop.fitted, wrote |-> TRUE]

\* np.save(file_path, data) after the loop: reached only if nothing raised
SaveFilled(disk, file_path, loop) ==
    IF loop.err # "none"
    THEN [err |-> loop.err, data |-> << >>, disk |-> disk,
          source |-> "computed", fitted |-> loop.fitted, wrote |-> FALSE]
    ELSE [err |-> "none", data |-> loop.data,
          disk |-> NpSave(disk, file_path, loop.data),
          source |-> "computed", fitted |-> loop.fitted, wrote |-> TRUE]

\* the else branch: compute every file's features, then save
ComputeAndSave(self, file_length, files, disk, file_path) ==
    SaveFilled(disk, file_path,
               FillSlots(file_length,
                         [i \in 1..Len(files) |-> LoadPreprocessFile(self, files[i])],
                         0, NpEmpty(file_length * Len(files)), << >>))

LoadData(self, file_length, files, disk) ==
    IF PathExists(disk, CacheFileName(self))
    THEN [err |-> "none", data |-> NpLoad(disk, CacheFileName(self)),
          disk |-> disk, source |-> "cache", fitted |-> << >>, wrote |-> FALSE]
    ELSE ComputeAndSave(self, file_length, files, disk, CacheFileName(self))

----------------------------------------------------------------------------
(* MachineDataSet.__init__ *)

NumSamplesPerFile(file_length, context, hop_all) ==
    IF hop_all THEN file_length \div context ELSE file_length - context + 1

\* what one run of __init__ leaves in the log: its arguments, the error
\* raised, the object, the sorted files, whether the cache file was there
\* when it started, and what __load_meta_data__ and __load_data__ did
LogEntry(p, err, self, files, file_length, metas, load, disk) ==
    [ p           |-> p,
      err         |-> err,
      self        |-> self,
      files       |-> files,
      file_length |-> file_length,
      metas       |-> metas,
      cached      |-> PathExists(disk, CacheFileName(SelfOf(p))),
      source      |-> load.source,
      fitted      |-> load.fitted,
      wrote       |-> load.wrote ]

\* __load_data__ was not reached
NoLoad == [source |-> "none", fitted |-> << >>, wrote |-> FALSE]

\* a raise out of __init__: no object
Raise(p, err, files, file_length, metas, load, disk, after) ==
    [ err |-> err, self |-> NoObject, disk |-> after,
      log |-> LogEntry(p, err, NoObject, files, file_length, metas, load, disk) ]

\* the attributes __init__ sets once the files are known
Complete(self0, files, file_length, nspf, meta_data, data) ==
    self0 @@ [ files                |-> files,
               file_length          |-> file_length,
               num_samples_per_file |-> nspf,
               meta_data            |-> meta_data,
               data                 |-> data ]

\* self.data = self.__load_data__(files) has run: the object is complete
InitWithData(p, self0, disk, files, file_length, meta, load) ==
    IF load.err # "none"
    THEN Raise(p, load.err, files, file_length, meta.seen, load, disk, load.disk)
    ELSE [ err  |-> "none",
           self |-> Complete(self0, files, file_length,
                             NumSamplesPerFile(file_length, p.context,
                                               self0.hop_all),
                             meta.data, load.data),
           disk |-> load.disk,
           log  |-> LogEntry(p, "none",
                             Complete(self0, files, file_length,
                                      NumSamplesPerFile(file_length, p.context,
                                                        self0.hop_all),
                                      meta.data, load.data),
                             files, file_length, meta.seen, load, disk) ]

\* self.meta_data = self.__load_meta_data__(files) has run
InitWithMetaData(p, self0, disk, files, file_length, meta) ==
    IF meta.err # "none"
    THEN Raise(p, meta.err, files, file_length, meta.seen, NoLoad, disk, disk)
    ELSE InitWithData(p, self0, disk, files, file_length, meta,
                      LoadData(self0, file_length, files, disk))

\* self.__load_preprocess_file__(files[0]) has run
InitWithFirstFile(p, self0, disk, files, first) ==
    IF first.err # "none"
    THEN Raise(p, first.err, files, 0, << >>, NoLoad, disk, disk)
    ELSE InitWithMetaData(p, self0, disk, files, Len(first.x),
                          LoadMetaData(self0, files))

\* files = sorted(glob.glob(...)) has run
InitWithFiles(p, self0, disk, files) ==
    IF Len(files) = 0
    THEN Raise(p, "AssertionError", files, 0, << >>, NoLoad, disk, disk)
    ELSE InitWithFirstFile(p, self0, disk, files,
                           LoadPreprocessFile(self0, files[1]))

\* MachineDataSet(machine_type, machine_id, mode=..., ...) on the audio
\* tree and cache directory as they are: the error raised ("none": none),
\* the object, the cache directory afterwards and the log entry
NewMachineDataSet(p, tree, disk) ==
    IF RootFolder(p.machine_type, p.machine_id) = "AttributeError"
    THEN Raise(p, "AttributeError", << >>, 0, << >>, NoLoad, disk, disk)
    ELSE InitWithFiles(p, SelfOf(p), disk,
                       Sorted(Glob(tree, RootFolder(p.machine_type, p.machine_id),
                                   INVERSE_CLASS_MAP[p.machine_type],
                                   SplitOf(p.mode), p.machine_id)))

----------------------------------------------------------------------------
(* MachineDataSet.__getitem__ and __len__ *)

\* mutant: the offset is always scaled by the context
WindowStart_AlwaysHops(self, item) ==
    LET offset == item % self.num_samples_per_file
        file   == item \div self.num_samples_per_file
    IN  file * self.file_length + offset * self.context

\* first column (0-based) of the window of sample `item`
WindowStart(self, item) ==
    LET offset == item % self.num_samples_per_file
        file   == item \div self.num_samples_per_file
    IN  file * self.file_length
        + (IF self.hop_all THEN offset * self.context ELSE offset)

\* mutant: the stored dict is written to, not a copy of it
StoredMetaData_NoCopy(self, file, observation) ==
    [self.meta_data EXCEPT ![file + 1] =
        [observations |-> <<observation>>] @@ @]

\* self.meta_data after  md = self.meta_data[file].copy(); md['observations'] = obs
StoredMetaData(self, file, observation) == self.meta_data

\* __getitem__(item), for num_samples_per_file > 0 and item >= 0: the
\* object afterwards and the sample returned (or IndexError)
GetItem(self, item) ==
    LET file        == item \div self.num_samples_per_file
        offset      == WindowStart(self, item)
        observation == Slice(self.data, offset, offset + self.context)
    IN  IF file >= Len(self.meta_data)
        THEN [self |-> self, err |-> "IndexError", value |-> << >>]
        ELSE [ self  |-> [self EXCEPT !.meta_data =
                                 StoredMetaData(self, file, observation)],
               err   |-> "none",
               value |-> self.meta_data[file + 1]
                         @@ [observations |-> <<observation>>] ]

\* __len__()
DsLen(self) == Len(self.files) * self.num_samples_per_file

----------------------------------------------------------------------------
(* MCMDataSet.__init__ *)

RECURSIVE SumRow(_, _, _)
\* sum over the columns t..Len(data) of row b
SumRow(data, b, t) ==
    IF t > Len(data) THEN 0 ELSE data[t][b] + SumRow(data, b, t + 1)

RECURSIVE SumSqRow(_, _, _)
SumSqRow(data, b, t) ==
    IF t > Len(data) THEN 0
    ELSE data[t][b] * data[t][b] + SumSqRow(data, b, t + 1)

\* data.mean(axis=1, keepdims=True): per mel bin, the exact quotient sum/n
Mean(data, num_mel) ==
    [b \in 1..num_mel |-> [sum |-> SumRow(data, b, 1), n |-> Len(data)]]

\* data.std(axis=1, keepdims=True): per mel bin, the exact variance
\* (n * sumsq - sum^2) / n^2 whose root it is
Std(data, num_mel) ==
    [b \in 1..num_mel |->
        [ num |-> Len(data) * SumSqRow(data, b, 1)
                  - SumRow(data, b, 1) * SumRow(data, b, 1),
          den |-> Len(data) * Len(data) ]]

\* the keyword arguments MCMDataSet hands to every MachineDataSet
Kwargs(q, machine_id, mode) ==
    [ machine_type |-> q.machine_type,
      machine_id   |-> machine_id,
      mode         |-> mode,
      context      |-> q.context,
      num_mel      |-> q.num_mel,
      n_fft        |-> q.n_fft,
      hop_size     |-> q.hop_size,
      power        |-> q.power,
      normalize    |-> q.normalize_raw,
      fmin         |-> q.fmin,
      hop_all      |-> q.hop_all ]

\* mutant: the validation set's matrix is collected
AppendData_Validation(data, training_set, validation_set) ==
    Append(data, validation_set.data)

\* data.append(...) in the loop over the ids
AppendData(data, training_set, validation_set) ==
    Append(data, training_set.data)

\* the loop over the ids, unrolled into its MachineDataSet constructions:
\* step j builds the training set (j odd) or the validation set (j even)
\* of ids[(j + 1) \div 2]; after the validation set, data.append runs
RECURSIVE BuildSets(_, _, _, _, _, _, _, _)
RECURSIVE AfterSet(_, _, _, _, _, _, _, _)
AfterSet(q, ids, j, tree, acc, data, logs, r) ==
    IF r.err # "none"
    THEN [err |-> r.err, training_sets |-> << >>, validation_sets |-> << >>,
          data |-> << >>, disk |-> r.disk, logs |-> Append(logs, r.log)]
    ELSE IF j % 2 = 1
    THEN BuildSets(q, ids, j + 1, tree, r.disk,
                   [acc EXCEPT !.t = Append(@, r.self)],
                   data, Append(logs, r.log))
    ELSE BuildSets(q, ids, j + 1, tree, r.disk,
                   [acc EXCEPT !.v = Append(@, r.self)],
                   AppendData(data, acc.t[Len(acc.t)], r.self),
                   Append(logs, r.log))

BuildSets(q, ids, j, tree, disk, acc, data, logs) ==
    IF j > 2 * Len(ids)
    THEN [err |-> "none", training_sets |-> acc.t, validation_sets |-> acc.v,
          data |-> data, disk |-> disk, logs |-> logs]
    ELSE AfterSet(q, ids, j, tree, acc, data, logs,
                  NewMachineDataSet(
                      Kwargs(q, ids[(j + 1) \div 2],
                             IF j % 2 = 1 THEN "training" ELSE "validation"),
                      tree, disk))

\* MCMDataSet(machine_type, machine_id, ...): the error raised, the object,
\* the cache directory afterwards and the log entries of its MachineDataSets
MCMWithSets(q, built) ==
    LET data == IF q.machine_id = -1 THEN Flatten(built.data)
                ELSE built.training_sets[1].data
    IN  IF built.err # "none"
        THEN [err |-> built.err, self |-> NoObject, disk |-> built.disk,
              logs |-> built.logs]
        ELSE [ err  |-> "none",
               self |-> [ training_sets   |-> built.training_sets,
                          validation_sets |-> built.validation_sets,
                          mean            |-> Mean(data, q.num_mel),
                          std             |-> Std(data, q.num_mel),
                          q               |-> q ],
               disk |-> built.disk,
               logs |-> built.logs ]

NewMCMDataSet(q, tree, disk) ==
    MCMWithSets(q, BuildSets(q, IF q.machine_id = -1
                                THEN ALL_ID_MAP[q.machine_type]
                                ELSE <<q.machine_id>>,
                             1, tree, disk, [t |-> << >>, v |-> << >>],
                             << >>, << >>))

----------------------------------------------------------------------------
(* The calls a program makes *)

BaseParams ==
    [ machine_type |-> 0, machine_id |-> 0, mode |-> "training",
      context |-> 2, num_mel |-> 2, n_fft |-> 4, hop_size |-> 2,
      power |-> 2, normalize |-> TRUE, fmin |-> 0, hop_all |-> TRUE ]

\* the arguments of MachineDataSet: the base ones, and each differing from
\* them in one argument
Params ==
    {BaseParams}
    \cup { [BaseParams EXCEPT !.machine_type = 1] }
    \cup { [BaseParams EXCEPT !.machine_id = i] : i \in {1, 2} }
    \cup { [BaseParams EXCEPT !.mode = "validation"] }
    \cup { [BaseParams EXCEPT !.context = 3] }
    \cup { [BaseParams EXCEPT !.num_mel = 1] }
    \cup { [BaseParams EXCEPT !.n_fft = 8] }
    \cup { [BaseParams EXCEPT !.hop_size = 1] }
    \cup { [BaseParams EXCEPT !.power = w] : w \in {1, 3} }
    \cup { [BaseParams EXCEPT !.normalize = FALSE] }
    \cup { [BaseParams EXCEPT !.fmin = 1] }
    \cup { [BaseParams EXCEPT !.hop_all = FALSE] }

BaseMCMParams ==
    [ machine_type |-> 0, machine_id |-> 0, context |-> 2, num_mel |-> 2,
      n_fft |-> 4, hop_size |-> 2, power |-> 2, normalize_raw |-> TRUE,
      fmin |-> 0, hop_all |-> TRUE ]

\* the arguments of MCMDataSet: all ids (-1), a development id, an
\* evaluation id, an unknown id
MCMParams == { [BaseMCMParams EXCEPT !.machine_id = i] : i \in {-1, 0, 1, 2} }

Returned(call, arg, err, value) ==
    [call |-> call, arg |-> arg, err |-> err, value |-> value]

Init ==
    /\ fs \in FileTrees
    /\ cache = << >>
    /\ ds = NoObject
    /\ mcm = NoObject
    /\ ret = Returned("none", 0, "none", 0)
    /\ hist = << >>
    /\ calls = 0
    /\ edits = 0

\* ds = MachineDataSet(...): a raise leaves the caller's ds as it was
Constructed(p, r) ==
    /\ cache' = r.disk
    /\ ds' = IF r.err = "none" THEN r.self ELSE ds
    /\ hist' = Append(hist, r.log)
    /\ ret' = Returned("MachineDataSet", p, r.err, 0)

ConstructMachineDataSet(p) ==
    /\ calls < MaxCalls
    /\ Constructed(p, NewMachineDataSet(p, fs, cache))
    /\ calls' = calls + 1
    /\ UNCHANGED <<fs, mcm, edits>>

\* mcm = MCMDataSet(...)
MCMConstructed(q, r) ==
    /\ cache' = r.disk
    /\ mcm' = IF r.err = "none" THEN r.self ELSE mcm
    /\ hist' = hist \o r.logs
    /\ ret' = Returned("MCMDataSet", q, r.err, 0)

ConstructMCMDataSet(q) ==
    /\ calls < MaxCalls
    /\ MCMConstructed(q, NewMCMDataSet(q, fs, cache))
    /\ calls' = calls + 1
    /\ UNCHANGED <<fs, ds, edits>>

\* ds[item]
GetItemCall(item) ==
    /\ ds # NoObject
    /\ ds.num_samples_per_file > 0
    /\ LET r == GetItem(ds, item)
       IN  /\ ds' = r.self
           /\ ret' = Returned("__getitem__", item, r.err, r.value)
    /\ UNCHANGED <<fs, cache, mcm, hist, calls, edits>>

\* ds.__len__()
LenCall ==
    /\ ds # NoObject
    /\ ret' = Returned("__len__", 0, "none", DsLen(ds))
    /\ UNCHANGED <<fs, cache, ds, mcm, hist, calls, edits>>

\* mcm.mean_std()
MeanStdCall ==
    /\ mcm # NoObject
    /\ ret' = Returned("mean_std", 0, "none", <<mcm.mean, mcm.std>>)
    /\ UNCHANGED <<fs, cache, ds, mcm, hist, calls, edits>>

\* the indices __getitem__ is called with: every valid one, and one past
Indices == 0..(IF ds # NoObject /\ DsLen(ds) > 0 THEN DsLen(ds) ELSE 0)

Next ==
    \/ \E p \in Params : ConstructMachineDataSet(p)
    \/ \E q \in MCMParams : ConstructMCMDataSet(q)
    \/ \E item \in Indices : GetItemCall(item)
    \/ LenCall
    \/ MeanStdCall

Spec == Init /\ [][Next]_vars

\* a recording is copied into the audio tree between two calls
AddRecording(r) ==
    /\ edits < MaxEdits
    /\ r \notin fs
    /\ OneFilePerName(fs \cup {r})
    /\ fs' = fs \cup {r}
    /\ edits' = edits + 1
    /\ UNCHANGED <<cache, ds, mcm, ret, hist, calls>>

\* a recording is deleted from the audio tree between two calls
RemoveRecording(r) ==
    /\ edits < MaxEdits
    /\ r \in fs
    /\ fs' = fs \ {r}
    /\ edits' = edits + 1
    /\ UNCHANGED <<cache, ds, mcm, ret, hist, calls>>

\* the arguments used on a changing tree: the base ones, the evaluation id,
\* the validation mode, an unknown id, an unsupported power, another context
FsParams ==
    { BaseParams,
      [BaseParams EXCEPT !.machine_id = 1],
      [BaseParams EXCEPT !.machine_id = 2],
      [BaseParams EXCEPT !.mode = "validation"],
      [BaseParams EXCEPT !.power = 3],
      [BaseParams EXCEPT !.context = 3] }

InitFs ==
    /\ fs = Regular
    /\ cache = << >>
    /\ ds = NoObject
    /\ mcm = NoObject
    /\ ret = Returned("none", 0, "none", 0)
    /\ hist = << >>
    /\ calls = 0
    /\ edits = 0

NextFs ==
    \/ \E p \in FsParams : ConstructMachineDataSet(p)
    \/ \E r \in Atypical : AddRecording(r)
    \/ \E r \in Regular \cup Atypical : RemoveRecording(r)

\* the constructor calls of a program, on an audio tree that changes
\* between them
SpecFs == InitFs /\ [][NextFs]_vars

----------------------------------------------------------------------------
(* What the properties below are stated with *)

\* the cache file a construction with arguments p reads or writes
KeyOf(p) == CacheFileName(SelfOf(p))

\* the nine arguments that appear in the cache file's name
NineOf(p) ==
    << p.num_mel, p.n_fft, p.hop_size, p.power, p.mode, p.machine_type,
       p.machine_id, p.normalize, p.fmin >>

\* the files a construction with arguments p works on, in sorted order
FilesOf(p, tree) ==
    Sorted(Glob(tree, RootFolder(p.machine_type, p.machine_id),
                INVERSE_CLASS_MAP[p.machine_type], SplitOf(p.mode), p.machine_id))

\* the feature matrix of arguments p on an audio tree: every file's
\* spectrogram, fitted to the first file's frame count, side by side
Features(p, tree) ==
    LET files == FilesOf(p, tree)
        x(i)  == LoadPreprocessFile(SelfOf(p), files[i]).x
    IN  Flatten([i \in 1..Len(files) |-> PadTruncate(x(i), Len(x(1)))])

\* every argument tuple a MachineDataSet is built with, directly or by MCMDataSet
AllParams ==
    Params \cup FsParams
    \cup { Kwargs(q, id, mode) : q \in MCMParams, id \in {0, 1, 2},
                                 mode \in {"training", "validation"} }

\* the number of positions in which two tuples of the same length differ
Differences(a, b) == Cardinality({ n \in DOMAIN a : a[n] # b[n] })

Ok(i) == hist[i].err = "none"

----------------------------------------------------------------------------
(* C1 *)

\* C1: every cache file holds exactly the feature matrix of the nine
\* arguments in its name, and a construction that loads from the cache
\* loads what an earlier construction with the same nine arguments computed
C1_CacheKeyDeterminesContent ==
    /\ \A k \in DOMAIN cache : \E p \in AllParams : KeyOf(p) = k
    /\ \A p \in AllParams :
          KeyOf(p) \in DOMAIN cache => cache[KeyOf(p)] = Features(p, fs)
    /\ \A j \in DOMAIN hist :
          hist[j].source = "cache" =>
             \E i \in 1..(j - 1) :
                /\ hist[i].wrote
                /\ NineOf(hist[i].p) = NineOf(hist[j].p)
                /\ hist[j].self.data = hist[i].self.data

\* two constructions whose arguments differ in exactly one of the nine
\* both computed and wrote their own cache file
C1_Witness ==
    \E i, j \in DOMAIN hist :
        /\ i < j
        /\ hist[i].wrote /\ hist[j].wrote
        /\ Differences(NineOf(hist[i].p), NineOf(hist[j].p)) = 1
        /\ cache[KeyOf(hist[i].p)] # cache[KeyOf(hist[j].p)]

----------------------------------------------------------------------------
(* C2 *)

\* C2: of two constructions with identical arguments, the first (no cache
\* file there) computes and writes, the second loads from the cache without
\* computing any file's features in __load_data__, and holds the same data
C2_SecondLoadsFromCache ==
    \A i, j \in DOMAIN hist :
        (i < j /\ hist[i].p = hist[j].p /\ Ok(i) /\ ~hist[i].cached) =>
            /\ hist[i].source = "computed" /\ hist[i].wrote
            /\ Len(hist[i].fitted) = Len(hist[i].files)
            /\ Ok(j) /\ hist[j].cached
            /\ hist[j].source = "cache" /\ ~hist[j].wrote
            /\ hist[j].fitted = << >>
            /\ hist[j].self.data = hist[i].self.data

C2_Witness ==
    \E i, j \in DOMAIN hist :
        /\ i < j /\ hist[i].p = hist[j].p
        /\ hist[i].wrote /\ hist[j].source = "cache"
        /\ Len(hist[j].self.data) > 0

----------------------------------------------------------------------------
(* C3 *)

\* C3: when the matrix is computed, every file has exactly file_length
\* frames after the pad/truncate step, whatever its own frame count
C3_EveryFileFitted ==
    \A i \in DOMAIN hist :
        hist[i].source = "computed" =>
            \A n \in DOMAIN hist[i].fitted :
                hist[i].fitted[n] = hist[i].file_length

----------------------------------------------------------------------------
(* C4 *)

\* windows-per-file as the specification words it, from the arguments passed
WindowsPerFile(p, file_length) ==
    IF p.hop_all /\ p.mode = "training"
    THEN file_length \div p.context
    ELSE file_length - p.context + 1

\* C4: len(dataset) = number of files x windows-per-file, with the sliding
\* count in validation mode even when hop_all=True is passed; file_length
\* is the frame count of the first file in sorted order
C4_LenIsFilesTimesWindows ==
    /\ \A i \in DOMAIN hist :
          Ok(i) =>
             /\ hist[i].files = FilesOf(hist[i].p, fs)
             /\ hist[i].self.file_length
                   = 1 + hist[i].files[1].samples \div hist[i].p.hop_size
             /\ DsLen(hist[i].self)
                   = Len(hist[i].files)
                     * WindowsPerFile(hist[i].p, hist[i].self.file_length)
    /\ ret.call = "__len__" =>
          \E i \in DOMAIN hist :
             /\ Ok(i) /\ hist[i].self = ds
             /\ ret.value = Len(hist[i].files)
                            * WindowsPerFile(hist[i].p, ds.file_length)

\* __len__ was called on a validation set built with hop_all=True, for
\* which the two window counts differ
C4_Witness ==
    /\ ret.call = "__len__"
    /\ ret.value > 0
    /\ \E i \in DOMAIN hist :
          /\ Ok(i) /\ hist[i].self = ds
          /\ hist[i].p.mode = "validation" /\ hist[i].p.hop_all
          /\ ds.file_length \div ds.context # ds.file_length - ds.context + 1

----------------------------------------------------------------------------
(* C5 *)

\* the label the specification gives a first field
PrefixLabel(prefix) ==
    IF prefix = "normal" THEN 0 ELSE IF prefix = "anomaly" THEN 1 ELSE -1

\* the __get_meta_data__ calls of all constructions, on three- and
\* four-field names: <<construction, position among its files>>
MetaCalls ==
    UNION { { <<i, n>> : n \in { m \in DOMAIN hist[i].metas :
                                   Len(hist[i].metas[m].name) \in {3, 4} } } :
            i \in DOMAIN hist }

MetaCall(c) == hist[c[1]].metas[c[2]]

\* C5 as claimed: every file gets a label, 0 for the first field 'normal',
\* 1 for 'anomaly', -1 for any other
C5_LabelFromPrefix ==
    \A c \in MetaCalls :
        /\ MetaCall(c).err = "none"
        /\ MetaCall(c).targets = PrefixLabel(MetaCall(c).name[1])

\* C5 as amended: 'normal' gives 0 and 'anomaly' gives 1; any other first
\* field gives -1 on a three-field name, and on a four-field name raises
\* AttributeError, so that the construction fails; the stored metadata of a
\* constructed dataset carries the labels of its files in sorted order
C5_LabelFromPrefixOrRaise ==
    /\ \A c \in MetaCalls :
          IF Len(MetaCall(c).name) = 4
             /\ MetaCall(c).name[1] \notin {"normal", "anomaly"}
          THEN /\ MetaCall(c).err = "AttributeError"
               /\ hist[c[1]].err = "AttributeError"
               /\ hist[c[1]].self = NoObject
          ELSE /\ MetaCall(c).err = "none"
               /\ MetaCall(c).targets = PrefixLabel(MetaCall(c).name[1])
    /\ \A i \in DOMAIN hist :
          Ok(i) =>
             /\ Len(hist[i].self.meta_data) = Len(hist[i].files)
             /\ \A n \in DOMAIN hist[i].files :
                   hist[i].self.meta_data[n].targets
                      = PrefixLabel(hist[i].files[n].name[1])

\* a construction met 'anomaly', 'normal' and then a four-field name with
\* another first field, and another one labelled a three-field name
C5_Witness ==
    /\ \E i \in DOMAIN hist :
          /\ Len(hist[i].metas) = 3
          /\ hist[i].metas[1].targets = 1
          /\ hist[i].metas[2].targets = 0
          /\ hist[i].metas[3].name[1] = "other"
          /\ hist[i].metas[3].err = "AttributeError"
    /\ \E i \in DOMAIN hist :
          /\ Ok(i)
          /\ Len(hist[i].files[1].name) = 3
          /\ hist[i].self.meta_data[1].targets = -1

----------------------------------------------------------------------------
(* C6 *)

KnownId(p) ==
    p.machine_id \in TRAINING_ID_MAP[p.machine_type]
                     \cup EVALUATION_ID_MAP[p.machine_type]

Malformed(files) == \E n \in DOMAIN files : Len(files[n].name) \notin {3, 4}

Fails(i, errors) == hist[i].err \in errors /\ hist[i].self = NoObject

\* C6: a construction fails, with or without a cache file for its
\* arguments, when the id is in neither id set (AttributeError), when no
\* file matches, when the power is neither 1 nor 2 (AttributeError), and
\* when a matched name has neither 3 nor 4 fields (AttributeError)
C6_ConstructionFails ==
    \A i \in DOMAIN hist :
        /\ ~KnownId(hist[i].p) => Fails(i, {"AttributeError"})
        /\ (KnownId(hist[i].p) /\ hist[i].files = << >>)
              => Fails(i, {"AssertionError"})
        /\ hist[i].p.power \notin {1, 2}
              => Fails(i, {"AttributeError", "AssertionError"})
        /\ (hist[i].p.power \notin {1, 2} /\ hist[i].files # << >>)
              => Fails(i, {"AttributeError"})
        /\ Malformed(hist[i].files) => Fails(i, {"AttributeError"})

\* a construction found the cache file of its arguments there and failed
\* on a five-field name
C6_Witness ==
    \E i \in DOMAIN hist :
        /\ hist[i].cached
        /\ hist[i].err = "AttributeError"
        /\ Malformed(hist[i].files)

----------------------------------------------------------------------------
(* C7 *)

\* the ids an MCMDataSet with arguments q covers
IdsOf(q) ==
    IF q.machine_id = -1 THEN ALL_ID_MAP[q.machine_type] ELSE <<q.machine_id>>

\* C7: one training and one validation set per id, and mean/std per mel
\* bin over the training matrices of those ids side by side, nothing else
C7_MeanStdOverTrainingData ==
    /\ mcm # NoObject =>
          LET ids   == IdsOf(mcm.q)
              train == Flatten([n \in 1..Len(ids) |->
                                   Features(Kwargs(mcm.q, ids[n], "training"), fs)])
          IN  /\ Len(mcm.training_sets) = Len(ids)
              /\ Len(mcm.validation_sets) = Len(ids)
              /\ \A n \in 1..Len(ids) :
                    /\ mcm.training_sets[n].machine_id = ids[n]
                    /\ mcm.training_sets[n].mode = "training"
                    /\ mcm.training_sets[n].data
                          = Features(Kwargs(mcm.q, ids[n], "training"), fs)
                    /\ mcm.validation_sets[n].machine_id = ids[n]
                    /\ mcm.validation_sets[n].mode = "validation"
              /\ mcm.mean = Mean(train, mcm.q.num_mel)
              /\ mcm.std = Std(train, mcm.q.num_mel)
    /\ ret.call = "mean_std" => ret.value = <<mcm.mean, mcm.std>>

\* mean_std() was called on an MCMDataSet of all ids, whose validation
\* data differ from its training data
C7_Witness ==
    /\ ret.call = "mean_std"
    /\ mcm # NoObject
    /\ mcm.q.machine_id = -1
    /\ Len(mcm.training_sets) = 2
    /\ mcm.training_sets[1].data # mcm.validation_sets[1].data
    /\ ret.value[1][1].n = Len(mcm.training_sets[1].data)
                           + Len(mcm.training_sets[2].data)

----------------------------------------------------------------------------
(* C8 *)

\* the sample __getitem__(item) returns, without the 'observations' key
MetaOf(sample) ==
    [k \in DOMAIN sample \ {"observations"} |-> sample[k]]

\* C8 for one dataset: every index below len() yields a 1 x num_mel x
\* context window inside the slot of file item // windows-per-file, with
\* that file's metadata, and no two indices yield the same window
WindowsInsideFiles(self) ==
    \A item \in 0..(DsLen(self) - 1) :
        LET got   == GetItem(self, item)
            file  == item \div self.num_samples_per_file
            start == WindowStart(self, item)
            obs   == got.value.observations
        IN  /\ got.err = "none"
            /\ Len(obs) = 1
            /\ Len(obs[1]) = self.context
            /\ \A c \in DOMAIN obs[1] : Len(obs[1][c]) = self.num_mel
            /\ obs[1] = [c \in 1..self.context |-> self.data[start + c]]
            /\ file < Len(self.files)
            /\ file * self.file_length <= start
            /\ start + self.context <= (file + 1) * self.file_length
            /\ MetaOf(got.value) = self.meta_data[file + 1]
            /\ got.value.file_ids
                  = self.files[file + 1].dir \o <<self.files[file + 1].name>>
            /\ \A other \in 0..(DsLen(self) - 1) :
                  other # item => WindowStart(self, other) # start

\* C8: the above for every dataset constructed, its matrix computed or
\* loaded from the cache
C8_WindowInsideOneFile ==
    \A i \in DOMAIN hist :
        (Ok(i) /\ hist[i].self.num_samples_per_file > 0)
            => WindowsInsideFiles(hist[i].self)

\* __getitem__ returned a window of the second file of a dataset whose
\* matrix was loaded from the cache
C8_Witness ==
    /\ ret.call = "__getitem__"
    /\ ret.err = "none"
    /\ ret.arg >= ds.num_samples_per_file
    /\ \E i \in DOMAIN hist :
          Ok(i) /\ hist[i].self = ds /\ hist[i].source = "cache"

----------------------------------------------------------------------------
(* C9 *)

\* a step in which __getitem__ or __len__ was called
ReadStep == calls' = calls /\ ret'.call \in {"__getitem__", "__len__"}

\* C9: __getitem__ and __len__ leave the dataset as it was (no stored
\* metadata gains the 'observations' key), so an index keeps its sample
C9_ReadsChangeNothing ==
    [][ ReadStep =>
          /\ ds' = ds
          /\ \A n \in DOMAIN ds'.meta_data :
                "observations" \notin DOMAIN ds'.meta_data[n]
          /\ ds.num_samples_per_file > 0 =>
                \A item \in 0..(DsLen(ds) - 1) :
                   GetItem(ds', item).value = GetItem(ds, item).value
          /\ DsLen(ds') = DsLen(ds)
          /\ cache' = cache /\ mcm' = mcm /\ hist' = hist ]_vars

\* __getitem__ returned a sample with its window, and the stored metadata
\* of that file has no such key
C9_Witness ==
    /\ ret.call = "__getitem__"
    /\ ret.err = "none"
    /\ "observations" \in DOMAIN ret.value
    /\ "observations" \notin
          DOMAIN ds.meta_data[1 + ret.arg \div ds.num_samples_per_file]

----------------------------------------------------------------------------
(* C10 *)

\* the constructions logged in this step
NewEntries == SubSeq(hist', Len(hist) + 1, Len(hist'))

\* C10: a cache file appears only when a construction has fitted every one
\* of its files, and then holds that construction's matrix; a construction
\* that fails or that finds its cache file writes nothing, and no existing
\* cache file is ever changed or removed
C10_CacheWrittenOnlyOnSuccess ==
    [][ /\ \A k \in DOMAIN cache : k \in DOMAIN cache' /\ cache'[k] = cache[k]
        /\ \A k \in DOMAIN cache' \ DOMAIN cache :
              \E n \in DOMAIN NewEntries :
                 /\ NewEntries[n].err = "none"
                 /\ NewEntries[n].source = "computed"
                 /\ ~NewEntries[n].cached
                 /\ KeyOf(NewEntries[n].p) = k
                 /\ Len(NewEntries[n].fitted) = Len(NewEntries[n].files)
                 /\ cache'[k] = NewEntries[n].self.data
        /\ \A n \in DOMAIN NewEntries :
              (NewEntries[n].err # "none" \/ NewEntries[n].cached)
                 => ~NewEntries[n].wrote
        /\ (ret'.call = "MachineDataSet" /\ calls' = calls + 1
            /\ (ret'.err # "none" \/ hist'[Len(hist')].cached))
              => cache' = cache ]_vars

\* with a cache file on disk, a construction failed on a file that does
\* not fit its slot
C10_Witness ==
    /\ cache # << >>
    /\ ret.call = "MachineDataSet"
    /\ ret.err = "ValueError"
    /\ hist[Len(hist)].source = "computed"
    /\ ~hist[Len(hist)].wrote

====
